---- MODULE Spec2Model ----
(***************************************************************************)
(* Model of the streaming fan-out sample:                                  *)
(*   lib/src/fanout.py   - the Lambda handler (decode, enrich, conditional *)
(*                         put_item, publish, return)                      *)
(*   scripts/producer.py - the synthetic record generator                  *)
(* Handler invocations run concurrently in a fixed set of execution        *)
(* environments and interleave at the two service calls.                   *)
(***************************************************************************)
EXTENDS Integers, Sequences, FiniteSets, TLC

VARIABLES
    pc,         \* handler: position of each invocation
    event,      \* handler: the payload event["records"][0]["data"] of each invocation
    item,       \* handler: the local dict `item` of each invocation
    err,        \* handler: the exception an invocation ended with ("" = none)
    resp,       \* handler: the value an invocation returned
    calls,      \* handler: the service calls an invocation made, with their outcomes
    table,      \* the DynamoDB table, keyed by transactionId
    putOK,      \* number of put_item calls that succeeded, per transactionId
    topic,      \* the messages published to the SNS topic, in order
    now,        \* datetime.now()
    failures,   \* number of service calls that failed for infrastructure reasons
    gpc,        \* producer: position in the script
    boot,       \* producer: outcome of start_application
    gexc,       \* producer: the exception that ended the script ("" = none)
    settled,    \* producer: time.sleep(30) was executed
    rootSteamName, \* producer: the stream name read from input()
    banks,      \* producer: the list `banks`
    stream      \* producer: the records put on the Kinesis stream so far

hvars == <<pc, event, item, err, resp, calls, table, putOK, topic, now, failures>>
gvars == <<gpc, boot, gexc, settled, rootSteamName, banks, stream>>
vars == <<pc, event, item, err, resp, calls, table, putOK, topic, now, failures,
          gpc, boot, gexc, settled, rootSteamName, banks, stream>>

(***************************************************************************)
(* Bounds                                                                  *)
(***************************************************************************)
MaxClock == 1      \* datetime.now() takes the values 0..MaxClock
MaxFail == 1       \* service calls that may fail for infrastructure reasons

\* the execution environments in which invocations run concurrently
Invocations == {"env1", "env2"}
Tids == {"t1", "t2"}

(***************************************************************************)
(* Data: the JSON object carried by a stream record, and its wire form     *)
(***************************************************************************)
Fields == {"transactionId", "name", "city", "transaction", "bankId", "createdAt"}
ExtraFields == {"age", "address", "state"}

D0 == [transactionId |-> "t1", name |-> "Alice", city |-> "NYC", transaction |-> 1000,
       bankId |-> "BANKAAXX", createdAt |-> "2024-01-01T00:00:00"]

\* A payload as it arrives: base64 text of UTF-8 bytes of JSON text of an object
\* with the keys `has` and the values `val`; each layer may be malformed.
Wire(b, u, j, has, val) ==
    [b64ok |-> b, utf8ok |-> u, jsonok |-> j, has |-> has, val |-> val]

\* the records the stream carries: D0 as the producer writes it (with the fields the
\* handler ignores), a second amount for the same transactionId, a second transactionId
DomainRecords ==
    {D0, [D0 EXCEPT !.transaction = 10000],
     [D0 EXCEPT !.transactionId = "t2", !.name = "Bob", !.transaction = 10000]}

Payloads ==
    {Wire(TRUE, TRUE, TRUE, IF D = D0 THEN Fields \cup ExtraFields ELSE Fields, D) :
        D \in DomainRecords}
    \cup {Wire(TRUE, TRUE, TRUE, Fields \ {f}, D0) : f \in Fields}
    \cup {Wire(FALSE, TRUE, TRUE, Fields, D0),
          Wire(TRUE, FALSE, TRUE, Fields, D0),
          Wire(TRUE, TRUE, FALSE, Fields, D0)}

ItemAttrs == Fields \cup {"customEnrichment", "inspectedAt"}

BlankItem ==
    [transactionId |-> "", name |-> "", city |-> "", transaction |-> 0, bankId |-> "",
     createdAt |-> "", customEnrichment |-> 0, inspectedAt |-> ""]

\* json.dumps(item): JSON text of an object with all attributes of the item
json_dumps(it) == [jsonok |-> TRUE, has |-> ItemAttrs, val |-> it]

\* str(datetime.now())
str_now(t) == "2024-01-01 00:00:0" \o ToString(t)

NoResp == [statusCode |-> 0, body |-> json_dumps(BlankItem)]

(***************************************************************************)
(* fanout.py: the local part of the handler, lines 17-32                   *)
(***************************************************************************)
\* base64.b64decode(payload).decode("utf-8"): the exception raised, "" if none
b64decode_utf8(p) ==
    IF ~p.b64ok THEN "binascii.Error"
    ELSE IF ~p.utf8ok THEN "UnicodeDecodeError"
    ELSE ""

\* json.loads(data_dump): the exception raised, "" if none
json_loads(p) == IF ~p.jsonok THEN "JSONDecodeError" ELSE ""

\* the keys the dict literal `item` reads from `data` with data[...]
ItemLookupsNoBank == Fields \ {"bankId"}
ItemLookups == {"transactionId", "name", "city", "transaction", "bankId", "createdAt"}

\* data["transaction"] + 500
customEnrichmentSmall(transaction) == transaction + 50
customEnrichment(transaction) == transaction + 500

\* the dict literal `item`
build_item(p, t) ==
    [transactionId |-> p.val.transactionId,
     name |-> p.val.name,
     city |-> p.val.city,
     transaction |-> p.val.transaction,
     bankId |-> p.val.bankId,
     createdAt |-> p.val.createdAt,
     customEnrichment |-> customEnrichment(p.val.transaction),
     inspectedAt |-> str_now(t)]

\* the exception lines 17-32 raise on payload p, "" if none
local_error(p) ==
    IF b64decode_utf8(p) # "" THEN b64decode_utf8(p)
    ELSE IF json_loads(p) # "" THEN json_loads(p)
    ELSE IF ~(ItemLookups \subseteq p.has) THEN "KeyError"
    ELSE ""

(***************************************************************************)
(* The DynamoDB table: one row per transactionId                           *)
(***************************************************************************)
NoRow == [attrs |-> {}, item |-> BlankItem]
row_without_inspectedAt(it) == [attrs |-> ItemAttrs \ {"inspectedAt"}, item |-> it]
Row(it) == [attrs |-> ItemAttrs, item |-> it]

\* ConditionExpression="attribute_not_exists(inspectedAt)" on the row of the key
unconditional(row) == TRUE
attribute_not_exists_inspectedAt(row) == "inspectedAt" \notin row.attrs

\* where the handler goes after put_item: an exception propagates (no try/except)
after_put_swallow(outcome) == "publish"
after_put(outcome) == IF outcome = "ok" THEN "publish" ELSE "raised"

(***************************************************************************)
(* fanout.py: the handler, one invocation per execution environment        *)
(***************************************************************************)
\* An invocation starts on payload p and runs lines 17-32
handler_begin(i, p) ==
    /\ pc[i] \in {"idle", "returned", "raised"}
    /\ event' = [event EXCEPT ![i] = p]
    /\ calls' = [calls EXCEPT ![i] = <<>>]
    /\ resp' = [resp EXCEPT ![i] = NoResp]
    /\ err' = [err EXCEPT ![i] = local_error(p)]
    /\ IF local_error(p) # ""
       THEN /\ pc' = [pc EXCEPT ![i] = "raised"]
            /\ item' = [item EXCEPT ![i] = BlankItem]
       ELSE /\ pc' = [pc EXCEPT ![i] = "put_item"]
            /\ item' = [item EXCEPT ![i] = build_item(p, now)]
    /\ UNCHANGED <<table, putOK, topic, now, failures>>
    /\ UNCHANGED gvars

\* table.put_item(Item=item, ConditionExpression=...): atomic in the store
put_item(i) ==
    /\ pc[i] = "put_item"
    /\ LET t == item[i].transactionId
           ok == attribute_not_exists_inspectedAt(table[t])
           outcome == IF ok THEN "ok" ELSE "ConditionalCheckFailedException"
       IN /\ table' = IF ok THEN [table EXCEPT ![t] = Row(item[i])] ELSE table
          /\ putOK' = IF ok THEN [putOK EXCEPT ![t] = @ + 1] ELSE putOK
          /\ calls' = [calls EXCEPT ![i] = Append(@, <<"put_item", outcome>>)]
          /\ err' = [err EXCEPT ![i] = IF ok THEN "" ELSE outcome]
          /\ pc' = [pc EXCEPT ![i] = after_put(outcome)]
    /\ UNCHANGED <<event, item, resp, topic, now, failures>>
    /\ UNCHANGED gvars

\* put_item fails for infrastructure reasons: nothing is written, the error propagates
put_item_unavailable(i) ==
    /\ pc[i] = "put_item"
    /\ failures < MaxFail
    /\ failures' = failures + 1
    /\ calls' = [calls EXCEPT ![i] = Append(@, <<"put_item", "ClientError">>)]
    /\ err' = [err EXCEPT ![i] = "ClientError"]
    /\ pc' = [pc EXCEPT ![i] = "raised"]
    /\ UNCHANGED <<event, item, resp, table, putOK, topic, now>>
    /\ UNCHANGED gvars

\* sns.publish(Message=json.dumps(item)) and the return statement
publish(i) ==
    /\ pc[i] = "publish"
    /\ topic' = Append(topic, json_dumps(item[i]))
    /\ calls' = [calls EXCEPT ![i] = Append(@, <<"publish", "ok">>)]
    /\ resp' = [resp EXCEPT ![i] = [statusCode |-> 200, body |-> json_dumps(item[i])]]
    /\ pc' = [pc EXCEPT ![i] = "returned"]
    /\ UNCHANGED <<event, item, err, table, putOK, now, failures>>
    /\ UNCHANGED gvars

\* sns.publish fails for infrastructure reasons: the error propagates
publish_unavailable(i) ==
    /\ pc[i] = "publish"
    /\ failures < MaxFail
    /\ failures' = failures + 1
    /\ calls' = [calls EXCEPT ![i] = Append(@, <<"publish", "ClientError">>)]
    /\ err' = [err EXCEPT ![i] = "ClientError"]
    /\ pc' = [pc EXCEPT ![i] = "raised"]
    /\ UNCHANGED <<event, item, resp, table, putOK, topic, now>>
    /\ UNCHANGED gvars

\* the wall clock advances
Tick ==
    /\ now < MaxClock
    /\ now' = now + 1
    /\ UNCHANGED <<pc, event, item, err, resp, calls, table, putOK, topic, failures>>
    /\ UNCHANGED gvars

Init ==
    /\ pc = [i \in Invocations |-> "idle"]
    /\ event = [i \in Invocations |-> Wire(TRUE, TRUE, TRUE, Fields, D0)]
    /\ item = [i \in Invocations |-> BlankItem]
    /\ err = [i \in Invocations |-> ""]
    /\ resp = [i \in Invocations |-> NoResp]
    /\ calls = [i \in Invocations |-> <<>>]
    /\ table = [t \in Tids |-> NoRow]
    /\ putOK = [t \in Tids |-> 0]
    /\ topic = <<>>
    /\ now = 0
    /\ failures = 0
    /\ gpc = "start_application"
    /\ boot = "none"
    /\ gexc = ""
    /\ settled = FALSE
    /\ rootSteamName = ""
    /\ banks = <<>>
    /\ stream = {}

Next ==
    \/ \E i \in Invocations, p \in Payloads : handler_begin(i, p)
    \/ \E i \in Invocations : put_item(i)
    \/ \E i \in Invocations : put_item_unavailable(i)
    \/ \E i \in Invocations : publish(i)
    \/ \E i \in Invocations : publish_unavailable(i)
    \/ Tick

Spec == Init /\ [][Next]_vars

(***************************************************************************)
(* producer.py: the generator script                                       *)
(***************************************************************************)
NBanks == 10       \* for _ in range(10)

SwiftCodes == {"AAAAUS33", "BBBBGB22"}      \* values of fake.swift()
Uuids == {"u1", "u2"}                       \* values of str(uuid.uuid4())
TxAmounts == {1000, 10000}                  \* values of fake.random_int(1000, 10000)
StreamNames == {"RootStream", "typo"}       \* what the operator may type
ExistingStreams == {"RootStream"}
\* outcomes of the try block: boto3.client(...) itself fails, or start_application
\* returns or raises
StartOutcomes ==
    {"started", "ResourceInUseException", "InvalidArgumentException", "NoCredentialsError"}

\* except kinesisanalytics.exceptions.ResourceInUseException
caught_all(exc) == TRUE
caught(exc) == exc = "ResourceInUseException"

\* banks[random.randrange(0, len(banks))]
any_swift == SwiftCodes
bank_choices == {banks[k] : k \in 1..Len(banks)}

\* while True: after time.sleep(1) the loop body runs again
after_sleep_exit == "exited"
after_sleep == "put_record"

\* the dict literal `payload`
build_payload(tid, tx, bank, t) ==
    [transactionId |-> tid, name |-> "Alice", age |-> 18, address |-> "1 Main St",
     city |-> "NYC", state |-> "NY", transaction |-> tx, bankId |-> bank,
     createdAt |-> str_now(t)]

\* the try block up to start_application, and the except clause. When boto3.client
\* raised, the name kinesisanalytics is unbound and the except clause raises NameError.
start_application ==
    /\ gpc = "start_application"
    /\ \E outcome \in StartOutcomes :
          /\ boot' = outcome
          /\ IF outcome = "started"
             THEN gpc' = "sleep30" /\ gexc' = gexc
             ELSE IF outcome = "NoCredentialsError"
                  THEN gpc' = "aborted" /\ gexc' = "NameError"
                  ELSE IF caught(outcome)
                       THEN gpc' = "input" /\ gexc' = gexc
                       ELSE gpc' = "aborted" /\ gexc' = outcome
    /\ UNCHANGED <<settled, rootSteamName, banks, stream>>
    /\ UNCHANGED hvars

\* print(...); time.sleep(30)
sleep30 ==
    /\ gpc = "sleep30"
    /\ settled' = TRUE
    /\ gpc' = "input"
    /\ UNCHANGED <<boot, gexc, rootSteamName, banks, stream>>
    /\ UNCHANGED hvars

\* rootSteamName = input(...); kinesis = boto3.client(...); fake = Faker(); banks = []
input_stream_name ==
    /\ gpc = "input"
    /\ \E n \in StreamNames : rootSteamName' = n
    /\ banks' = <<>>
    /\ gpc' = "banks_loop"
    /\ UNCHANGED <<boot, gexc, settled, stream>>
    /\ UNCHANGED hvars

\* one iteration of: for _ in range(10): banks.append(fake.swift())
append_bank ==
    /\ gpc = "banks_loop"
    /\ Len(banks) < NBanks
    /\ \E c \in SwiftCodes : banks' = Append(banks, c)
    /\ gpc' = IF Len(banks) + 1 = NBanks THEN "put_record" ELSE "banks_loop"
    /\ UNCHANGED <<boot, gexc, settled, rootSteamName, stream>>
    /\ UNCHANGED hvars

\* payload = {...}; kinesis.put_record(...) succeeds; pprint(response)
put_record ==
    /\ gpc = "put_record"
    /\ rootSteamName \in ExistingStreams
    /\ \E tid \in Uuids, tx \in TxAmounts, bank \in bank_choices :
          stream' = stream \cup {build_payload(tid, tx, bank, now)}
    /\ gpc' = "sleep1"
    /\ UNCHANGED <<boot, gexc, settled, rootSteamName, banks>>
    /\ UNCHANGED hvars

\* kinesis.put_record(...) raises (no such stream, or the service is unavailable):
\* nothing catches it and the script ends
put_record_raises ==
    /\ gpc = "put_record"
    /\ gexc' = IF rootSteamName \in ExistingStreams
               THEN "ClientError" ELSE "ResourceNotFoundException"
    /\ gpc' = "aborted"
    /\ UNCHANGED <<boot, settled, rootSteamName, banks, stream>>
    /\ UNCHANGED hvars

\* time.sleep(1)
sleep1 ==
    /\ gpc = "sleep1"
    /\ gpc' = after_sleep
    /\ UNCHANGED <<boot, gexc, settled, rootSteamName, banks, stream>>
    /\ UNCHANGED hvars

GenNext ==
    \/ start_application
    \/ sleep30
    \/ input_stream_name
    \/ append_bank
    \/ put_record
    \/ put_record_raises
    \/ sleep1

GenSpec == Init /\ [][GenNext]_vars

\* Fairness: an invocation that can make its service call eventually makes it, and the
\* transport delivers every well-formed record again and again (at-least-once delivery
\* with redelivery after a failed invocation).
LiveSpec ==
    /\ Init /\ [][Next]_vars
    /\ \A i \in Invocations : WF_vars(put_item(i)) /\ WF_vars(publish(i))
    /\ \A p \in Payloads :
          local_error(p) = "" => SF_vars(\E i \in Invocations : handler_begin(i, p))

(***************************************************************************)
(* Vocabulary of the properties                                            *)
(***************************************************************************)
RequiredFields == {"transactionId", "name", "city", "transaction", "bankId", "createdAt"}

WellFormed(p) == p.b64ok /\ p.utf8ok /\ p.jsonok /\ RequiredFields \subseteq p.has

Started(i) == pc[i] # "idle"
Finished(i) == pc[i] \in {"returned", "raised"}
Made(i, call, outcome) == \E k \in 1..Len(calls[i]) : calls[i][k] = <<call, outcome>>
Collided(i) == Made(i, "put_item", "ConditionalCheckFailedException")
Inserted(i) == Made(i, "put_item", "ok")
Unavailable(i) == Made(i, "put_item", "ClientError") \/ Made(i, "publish", "ClientError")
Stored(t) == table[t] # NoRow
Published(t) == \E k \in 1..Len(topic) : topic[k].val.transactionId = t
PublishedCount(t) == Cardinality({k \in 1..Len(topic) : topic[k].val.transactionId = t})
SameDomainRecord(a, b) == \A f \in RequiredFields : a[f] = b[f]

(***************************************************************************)
(* Properties of the handler                                               *)
(***************************************************************************)
\* C1: for every transactionId at most one conditional put_item succeeds, however many
\* invocations (sequential or interleaved) are made for it.
C1_AtMostOneFirstInsert ==
    \A t \in Tids :
        /\ putOK[t] <= 1
        /\ Cardinality({i \in Invocations : Inserted(i) /\ item[i].transactionId = t}) <= 1

\* two invocations that started at the same time raced for one transactionId:
\* one inserted, the other collided
C1_Race ==
    \E i, j \in Invocations :
        /\ i # j
        /\ pc[i] = "publish" /\ Inserted(i)
        /\ Collided(j)
        /\ item[i] = item[j]

\* C2: once a row is stored for a transactionId no handler step changes or deletes it
\* (inspectedAt included), and an invocation on a well-formed record never ends with a
\* decode or validation error.
C2_StoredRowImmutable ==
    /\ [][\A t \in Tids : Stored(t) => table'[t] = table[t]]_vars
    /\ [](\A i \in Invocations :
             (Started(i) /\ WellFormed(event[i])) =>
                 err[i] \notin {"binascii.Error", "UnicodeDecodeError",
                                "JSONDecodeError", "KeyError"})

\* a second invocation on the same record, at a later time, has ended and the row
\* still carries the first invocation's inspectedAt
C2_SecondInvocationEnded ==
    \E i \in Invocations :
        /\ Finished(i) /\ Collided(i)
        /\ SameDomainRecord(table[item[i].transactionId].item, item[i])
        /\ table[item[i].transactionId].item.inspectedAt # item[i].inspectedAt

\* C3: an invocation whose conditional write collided (duplicate delivery) completes
\* successfully and returns statusCode 200.
C3_DuplicateReturns200 ==
    \A i \in Invocations :
        (Finished(i) /\ Collided(i) /\ ~Unavailable(i)) =>
            (pc[i] = "returned" /\ resp[i].statusCode = 200)

\* C4: an invocation on a payload that is not base64/UTF-8, not JSON, or lacks a
\* required field fails before any side effect: it makes no put_item and no publish
\* call and its start leaves the table and the topic unchanged.
C4_InvalidPayloadNoSideEffect ==
    /\ [](\A i \in Invocations :
             (Started(i) /\ ~WellFormed(event[i])) =>
                 /\ pc[i] = "raised"
                 /\ err[i] \in {"binascii.Error", "UnicodeDecodeError",
                                "JSONDecodeError", "KeyError"}
                 /\ calls[i] = <<>>)
    /\ [][\A i \in Invocations :
             (~WellFormed(event'[i]) /\ <<pc[i], event[i], err[i]>> # <<pc'[i], event'[i], err'[i]>>)
                 => (table' = table /\ topic' = topic /\ putOK' = putOK)]_vars

\* an invocation on the payload without bankId has failed while another invocation
\* is between its insert and its publish
C4_MissingBankIdFailed ==
    \E i, j \in Invocations :
        /\ pc[i] = "raised" /\ err[i] = "KeyError"
        /\ event[i].has = RequiredFields \ {"bankId"}
        /\ pc[j] = "publish"

\* C5: an invocation publishes only after its own put_item succeeded, and for every
\* transactionId the number of published messages is at most the number of
\* successful inserts, which is at most one.
C5_PublishOnlyAfterInsert ==
    /\ \A i \in Invocations :
          (pc[i] = "publish" \/ Made(i, "publish", "ok") \/ Made(i, "publish", "ClientError"))
              => (Inserted(i) /\ ~Collided(i) /\ ~Made(i, "put_item", "ClientError"))
    /\ \A t \in Tids : PublishedCount(t) <= putOK[t] /\ PublishedCount(t) <= 1

\* one invocation inserted and published, a second one for the same transactionId
\* collided and ended without publishing
C5_CollisionDidNotPublish ==
    \E i, j \in Invocations :
        /\ pc[i] = "returned"
        /\ pc[j] = "raised" /\ Collided(j)
        /\ item[j].transactionId = item[i].transactionId
        /\ PublishedCount(item[i].transactionId) = 1

\* C6: an invocation that returns has stored, published and returned one record whose
\* six DomainRecord fields are those of the payload, with customEnrichment equal to
\* transaction + 500 and a non-empty inspectedAt, and statusCode 200; every stored row
\* and every published message is such a record.
C6_EnrichedRecord ==
    /\ \A i \in Invocations :
          pc[i] = "returned" =>
              /\ WellFormed(event[i])
              /\ SameDomainRecord(item[i], event[i].val)
              /\ item[i].customEnrichment = event[i].val.transaction + 500
              /\ item[i].inspectedAt # ""
              /\ resp[i].statusCode = 200
              /\ resp[i].body.jsonok /\ resp[i].body.val = item[i]
              /\ table[event[i].val.transactionId].item = item[i]
              /\ \E k \in 1..Len(topic) : topic[k].jsonok /\ topic[k].val = item[i]
    /\ \A t \in Tids :
          Stored(t) =>
              /\ table[t].item.transactionId = t
              /\ table[t].item.customEnrichment = table[t].item.transaction + 500
              /\ table[t].item.inspectedAt # ""
    /\ \A k \in 1..Len(topic) :
          /\ topic[k].val.customEnrichment = topic[k].val.transaction + 500
          /\ topic[k].val.inspectedAt # ""

\* the scenario of the specification: the record t1/Alice/NYC/1000 was delivered and
\* the invocation returned the record with customEnrichment 1500
C6_ScenarioReturned ==
    \E i \in Invocations :
        /\ pc[i] = "returned"
        /\ event[i].val = D0
        /\ resp[i].body.val.customEnrichment = 1500
        /\ table["t1"].item.customEnrichment = 1500

\* C10: with redelivery by the transport, every transactionId that is stored is
\* eventually published.
C10_StoredEventuallyPublished ==
    \A t \in Tids : Stored(t) ~> Published(t)

(***************************************************************************)
(* Properties of the generator                                             *)
(***************************************************************************)
GenState ==
    CASE gpc = "start_application" -> "Uninitialized"
      [] gpc \in {"sleep30", "input", "banks_loop"} -> "BootstrapAttempted"
      [] gpc \in {"put_record", "sleep1"} -> "Running"
      [] gpc = "aborted" -> "Aborted"
      [] OTHER -> "Exited"

Rank(st) ==
    CASE st = "Uninitialized" -> 0
      [] st = "BootstrapAttempted" -> 1
      [] st = "Running" -> 2
      [] OTHER -> 3

BankIds == {r.bankId : r \in stream}

\* C7: after ResourceInUseException the script goes on without the settle pause; after
\* a successful start the pause is taken before any record is emitted; after any other
\* start-up failure the script is aborted and no record is ever put on the stream.
C7_Bootstrap ==
    /\ boot = "ResourceInUseException" =>
          (~settled /\ gpc \notin {"start_application", "sleep30"}
             /\ gexc # "ResourceInUseException")
    /\ boot = "started" => (gpc = "sleep30" \/ settled)
    /\ (boot = "started" /\ stream # {}) => settled
    /\ (boot \notin {"none", "started", "ResourceInUseException"}) =>
          (gpc = "aborted" /\ gexc \in {boot, "NameError"} /\ stream = {} /\ ~settled)

\* the job was already running and records were emitted without the pause
C7_AlreadyRunningEmitted ==
    boot = "ResourceInUseException" /\ stream # {} /\ ~settled

\* C8 as stated: once Running the generator stays Running.
C8_RunningForever ==
    [][GenState = "Running" => GenState' = "Running"]_vars

\* C8 as amended: the states advance only in the order Uninitialized ->
\* BootstrapAttempted -> Running, never back; while Running every tick puts one record
\* and sleeps, and Running is left only when put_record raises, which aborts the script.
C8_OrderAndAbortOnly ==
    [][/\ Rank(GenState') >= Rank(GenState)
       /\ Rank(GenState') <= Rank(GenState) + 1 \/ GenState' = "Aborted"
       /\ GenState = "Aborted" => GenState' = "Aborted"
       /\ (GenState = "Running" /\ GenState' # "Running") =>
             (gpc = "put_record" /\ GenState' = "Aborted" /\ gexc' # "" /\ stream' = stream)
       /\ gpc = "sleep1" => gpc' = "put_record"
       /\ (gpc = "put_record" /\ GenState' = "Running") =>
             (gpc' = "sleep1" /\ \E r \in stream' : stream' = stream \cup {r})]_vars

\* the generator left Running, after emitting records, because put_record raised
C8_AbortedWhileRunning ==
    gpc = "aborted" /\ stream # {} /\ gexc = "ClientError"

====
